---- MODULE Spec2Model ----
(***************************************************************************)
(* faketime: a per-thread fakeable unix_time().                            *)
(*                                                                         *)
(* Text (file content, paths, thread names, environment values) is a       *)
(* sequence of one-character strings.  An Option<T> of the source is a     *)
(* sequence of length at most one: << >> is None, <<x>> is Some(x).  A     *)
(* Duration is a record [secs, nanos] as in std::time::Duration.           *)
(***************************************************************************)
EXTENDS Integers, Sequences, FiniteSets, TLC

\* ------------------------------------------------------------------ bounds
\* Stands for u64::MAX: the largest value read_millis parses and write_millis
\* prints (TLC's integers are 32 bits wide, so the width is scaled down).
MaxMillis == 200000

\* ------------------------------------------------------------------ text
None == << >>
Some(x) == <<x>>
IsSome(o) == Len(o) = 1
Unwrap(o) == o[1]

Digits == <<"0", "1", "2", "3", "4", "5", "6", "7", "8", "9">>
Whitespace == {" ", "\n"}
\* A byte that is not valid UTF-8 (fs::read_to_string rejects the file).
BadByte == "\\xFF"

IsDigit(c) == \E i \in 1..10 : Digits[i] = c
\* char::to_digit(10) for a digit c
to_digit(c) == (CHOOSE i \in 1..10 : Digits[i] = c) - 1

\* str::trim: strip leading and trailing whitespace
RECURSIVE trim_start(_)
trim_start(s) ==
    IF s # << >> /\ Head(s) \in Whitespace THEN trim_start(Tail(s)) ELSE s

RECURSIVE trim_end(_)
trim_end(s) ==
    IF s # << >> /\ s[Len(s)] \in Whitespace
    THEN trim_end(SubSeq(s, 1, Len(s) - 1))
    ELSE s

trim(s) == trim_end(trim_start(s))

starts_with(s, prefix) ==
    /\ Len(s) >= Len(prefix)
    /\ SubSeq(s, 1, Len(prefix)) = prefix

\* to_string with the least significant digit first
RECURSIVE Mut_to_string(_)
Mut_to_string(n) ==
    IF n < 10 THEN <<Digits[n + 1]>>
    ELSE <<Digits[(n % 10) + 1]>> \o Mut_to_string(n \div 10)

\* u64::to_string: decimal digits, most significant first, no leading zeros
RECURSIVE to_string(_)
to_string(n) ==
    IF n < 10 THEN <<Digits[n + 1]>>
    ELSE to_string(n \div 10) \o <<Digits[(n % 10) + 1]>>

\* A digit loop that stops at the first character that is no digit (atoi)
RECURSIVE Mut_parse_digits(_, _)
Mut_parse_digits(s, acc) ==
    IF s = << >> THEN Some(acc)
    ELSE IF ~IsDigit(Head(s)) THEN Some(acc)
    ELSE IF acc * 10 > MaxMillis THEN None
    ELSE IF acc * 10 + to_digit(Head(s)) > MaxMillis THEN None
    ELSE Mut_parse_digits(Tail(s), acc * 10 + to_digit(Head(s)))

\* The digit loop of <u64 as FromStr>::from_str: acc is Some(value so far);
\* an invalid digit, checked_mul or checked_add overflow gives None.
RECURSIVE parse_digits(_, _)
parse_digits(s, acc) ==
    IF s = << >> THEN Some(acc)
    ELSE IF ~IsDigit(Head(s)) THEN None
    ELSE IF acc * 10 > MaxMillis THEN None
    ELSE IF acc * 10 + to_digit(Head(s)) > MaxMillis THEN None
    ELSE parse_digits(Tail(s), acc * 10 + to_digit(Head(s)))

\* str::parse::<u64>: an optional "+", then at least one digit; "-" is an
\* invalid digit for an unsigned type.
parse_u64(s) ==
    IF s = << >> THEN None
    ELSE IF Len(s) = 1 /\ Head(s) \in {"+", "-"} THEN None
    ELSE IF Head(s) = "+" THEN parse_digits(Tail(s), 0)
    ELSE parse_digits(s, 0)

\* Duration::from_millis
from_millis(m) == [secs |-> m \div 1000, nanos |-> (m % 1000) * 1000000]
as_secs(d) == d.secs
subsec_millis(d) == d.nanos \div 1000000

\* ------------------------------------------------------------------ paths
is_absolute(p) == p # << >> /\ Head(p) = "/"

\* PathBuf::push (Unix): an absolute path replaces self, otherwise it is
\* appended, after a separator unless self is empty or ends with one.
push(self, p) ==
    IF is_absolute(p) THEN p
    ELSE IF self # << >> /\ self[Len(self)] # "/" THEN self \o <<"/">> \o p
    ELSE self \o p

\* ------------------------------------------------------------ file system
\* The host file system maps each path to Some(bytes of the file there) or
\* None.  An open file handle follows its file, not its path: while the file
\* is linked at the path it was opened at, the handle reads the bytes there;
\* once rename or unlink has taken the file off that path the handle is
\* detached and carries the file's bytes itself.
PathG == <<"/", "g">>
DirD == <<"/", "d">>
PathDW == <<"/", "d", "/", "w">>
TmpA == <<"/", "t", "/", "a">>
TmpB == <<"/", "t", "/", "b">>
\* A file system of its own is mounted at /m.
MountM == <<"/", "m", "/">>
PathMF == <<"/", "m", "/", "f">>

\* Paths at which the test harness keeps timestamp files.
FilePaths == {PathDW}
\* Names NamedTempFile::new() may draw in env::temp_dir().
TmpPaths == {TmpA, TmpB}
\* A writable place for a timestamp file on the volume mounted at /m.
MountedPaths == {PathMF}
FsPaths == FilePaths \cup TmpPaths \cup MountedPaths

\* The file system (volume) a path lies in
volume(p) == IF starts_with(p, MountM) THEN "m" ELSE "root"

lookup(f, p) == IF p \in DOMAIN f THEN f[p] ELSE None

Linked(p) == [linked |-> TRUE, path |-> p, bytes |-> << >>]
Detached(h, f) == [linked |-> FALSE, path |-> h.path, bytes |-> Unwrap(f[h.path])]

\* The handles after the file at p has been taken off p (f: the files before)
detach(handles, f, p) ==
    [t \in DOMAIN handles |->
        IF IsSome(handles[t]) /\ Unwrap(handles[t]).linked /\ Unwrap(handles[t]).path = p
        THEN Some(Detached(Unwrap(handles[t]), f))
        ELSE handles[t]]

\* The bytes an open handle reads
handle_bytes(f, h) == IF h.linked THEN Unwrap(f[h.path]) ELSE h.bytes

\* open(O_CREAT | O_EXCL): a new empty file at p; fails when p exists
create_new(f, p) ==
    IF p \notin DOMAIN f \/ IsSome(f[p])
    THEN [ok |-> FALSE, fs |-> f]
    ELSE [ok |-> TRUE, fs |-> [f EXCEPT ![p] = Some(<< >>)]]

\* write(2): append bytes to the file linked at p
append(f, p, bytes) == [f EXCEPT ![p] = Some(Unwrap(@) \o bytes)]

\* rename(2): atomically make `to` name the file of `from`; it fails (EXDEV)
\* when the two paths are not in the same file system
rename(f, handles, from, to) ==
    IF ~IsSome(lookup(f, from)) \/ to \notin DOMAIN f \/ volume(from) # volume(to)
    THEN [ok |-> FALSE, fs |-> f, rd |-> handles]
    ELSE IF from = to THEN [ok |-> TRUE, fs |-> f, rd |-> handles]
    ELSE [ok |-> TRUE,
          fs |-> [f EXCEPT ![to] = f[from], ![from] = None],
          rd |-> IF IsSome(f[to]) THEN detach(handles, f, to) ELSE handles]

\* unlink(2)
remove_file(f, handles, p) ==
    IF ~IsSome(lookup(f, p))
    THEN [ok |-> FALSE, fs |-> f, rd |-> handles]
    ELSE [ok |-> TRUE, fs |-> [f EXCEPT ![p] = None], rd |-> detach(handles, f, p)]

\* The conditions env::temp_dir() can be in: in order, or no file can be
\* created in it (read-only, EACCES/EROFS), or its volume has no space left
\* (a file can be created but write(2) fails with ENOSPC).
TmpDirStates == {"ok", "readonly", "full"}

\* The names in env::temp_dir() that are not in use: NamedTempFile::new()
\* draws random names until it finds one.
FreshTmp(f) == {tp \in TmpPaths : ~IsSome(f[tp])}

\* NamedTempFile::new() having drawn the name tp
NamedTempFile_new(f, dir, tp) ==
    IF dir = "readonly" THEN [ok |-> FALSE, fs |-> f] ELSE create_new(f, tp)

\* Write::write_all(bytes) on the file linked at p
write_all(f, dir, p, bytes) ==
    IF dir = "full" /\ bytes # << >>
    THEN [ok |-> FALSE, fs |-> f]
    ELSE [ok |-> TRUE, fs |-> append(f, p, bytes)]

\* std::fs::write: create the file or truncate it in place, then write bytes
fs_write(f, p, bytes) ==
    IF p \in DOMAIN f THEN [ok |-> TRUE, fs |-> [f EXCEPT ![p] = Some(bytes)]]
    ELSE [ok |-> FALSE, fs |-> f]

\* String::from_utf8 of a file's bytes
utf8(bytes) == IF \E k \in 1..Len(bytes) : bytes[k] = BadByte THEN None ELSE Some(bytes)

\* std::fs::read_to_string
read_to_string(f, p) == IF IsSome(lookup(f, p)) THEN utf8(Unwrap(lookup(f, p))) ELSE None

\* ------------------------------------------------------------------ state
Threads == {"t1", "t2"}

VARIABLES
    enabled,   \* FAKETIME_ENABLED of each thread: Option<bool>
    path,      \* FAKETIME_PATH of each thread
    name,      \* thread::current().name() of each thread: Option<text>
    env,       \* FAKETIME_DIR in the process environment: Option<bytes>
    clock,     \* SystemTime::now().duration_since(UNIX_EPOCH): Some(d), None if before
    fs,        \* the file system
    ret,       \* what each thread's last call returned
    rd,        \* the file each thread has open inside fs::read_to_string
    w,         \* the harness's write_millis call: its position and last result
    tmpdir,    \* the condition of env::temp_dir(): an element of TmpDirStates
    held       \* the NamedTempFile each thread's scope holds: Option<path>

vars == <<enabled, path, name, env, clock, fs, ret, rd, w, tmpdir, held>>

KEY_FAKETIME_DIR == <<"F", "A", "K", "E", "T", "I", "M", "E", "_", "D", "I", "R">>
PREFIX_FAKETIME_EQ == <<"F", "A", "K", "E", "T", "I", "M", "E", "=">>

\* env::var(KEY_FAKETIME_DIR): Ok(val) when the variable is present and its
\* value is valid Unicode, an error (None here) otherwise.
env_var(e) == IF IsSome(e) THEN utf8(Unwrap(e)) ELSE None

\* ---------------------------------------------------------- time resolver
Returned(d) == [panic |-> FALSE, val |-> Some(d)]
Panicked == [panic |-> TRUE, val |-> None]

\* system::unix_time: panics when the host clock is before the epoch
system_unix_time(clk) == IF IsSome(clk) THEN Returned(Unwrap(clk)) ELSE Panicked

\* .and_then(|text| text.trim().parse().ok()) of read_millis
and_then_parse(text) == IF IsSome(text) THEN parse_u64(trim(Unwrap(text))) ELSE None

read_millis(f, p) == and_then_parse(read_to_string(f, p))

\* map_or in place of map_or_else: the real clock is read before the file's
\* value is looked at
Mut_map_or_else(m, clk) ==
    IF system_unix_time(clk).panic THEN Panicked
    ELSE IF IsSome(m) THEN Returned(from_millis(Unwrap(m)))
    ELSE system_unix_time(clk)

\* .map_or_else(system_unix_time, Duration::from_millis) of read_or_system
map_or_else(m, clk) ==
    IF IsSome(m) THEN Returned(from_millis(Unwrap(m))) ELSE system_unix_time(clk)

read_or_system(f, p, clk) == map_or_else(read_millis(f, p), clk)

\* path_option taking the variable's value as the timestamp file itself
Mut_path_option(nm, e) ==
    IF IsSome(env_var(e)) THEN Some(Unwrap(env_var(e)))
    ELSE IF IsSome(nm) /\ starts_with(Unwrap(nm), PREFIX_FAKETIME_EQ)
         THEN Some(SubSeq(Unwrap(nm), Len(PREFIX_FAKETIME_EQ) + 1, Len(Unwrap(nm))))
         ELSE None

\* path_option of auto_detect
path_option(nm, e) ==
    IF IsSome(nm)
    THEN IF IsSome(env_var(e))
         THEN Some(push(Unwrap(env_var(e)), Unwrap(nm)))
         ELSE IF starts_with(Unwrap(nm), PREFIX_FAKETIME_EQ)
              THEN Some(SubSeq(Unwrap(nm), Len(PREFIX_FAKETIME_EQ) + 1, Len(Unwrap(nm))))
              ELSE None
    ELSE None

\* auto_detect whose None arm forgets to store Some(false)
Mut_auto_detect(en, pa, nm, e, f, clk) ==
    LET po == path_option(nm, e) IN
    IF IsSome(po)
    THEN LET duration == read_or_system(f, Unwrap(po), clk) IN
         IF duration.panic
         THEN [enabled |-> en, path |-> pa, out |-> duration]
         ELSE [enabled |-> Some(TRUE), path |-> Unwrap(po), out |-> duration]
    ELSE [enabled |-> en, path |-> pa, out |-> system_unix_time(clk)]

\* auto_detect: the thread's new cells and the outcome.  read_or_system runs
\* before the cells are set, so a panic in it leaves them as they were; in
\* the None arm the cell is set before system_unix_time runs.
auto_detect(en, pa, nm, e, f, clk) ==
    LET po == path_option(nm, e) IN
    IF IsSome(po)
    THEN LET duration == read_or_system(f, Unwrap(po), clk) IN
         IF duration.panic
         THEN [enabled |-> en, path |-> pa, out |-> duration]
         ELSE [enabled |-> Some(TRUE), path |-> Unwrap(po), out |-> duration]
    ELSE [enabled |-> Some(FALSE), path |-> pa, out |-> system_unix_time(clk)]

\* unix_time with the Disabled arm detecting again (the cell read as undecided)
Mut_unix_time_match_redetect(en, pa, nm, e, f, clk) ==
    IF en = Some(TRUE) THEN [enabled |-> en, path |-> pa, out |-> read_or_system(f, pa, clk)]
    ELSE auto_detect(en, pa, nm, e, f, clk)

\* unix_time with the Disabled arm still reading the configured file
Mut_unix_time_match_some(en, pa, nm, e, f, clk) ==
    IF IsSome(en) /\ pa # << >>
    THEN [enabled |-> en, path |-> pa, out |-> read_or_system(f, pa, clk)]
    ELSE IF IsSome(en) THEN [enabled |-> en, path |-> pa, out |-> system_unix_time(clk)]
    ELSE auto_detect(en, pa, nm, e, f, clk)

\* The match of unix_time on the thread's FAKETIME_ENABLED
unix_time_match(en, pa, nm, e, f, clk) ==
    IF en = Some(TRUE) THEN [enabled |-> en, path |-> pa, out |-> read_or_system(f, pa, clk)]
    ELSE IF en = Some(FALSE) THEN [enabled |-> en, path |-> pa, out |-> system_unix_time(clk)]
    ELSE auto_detect(en, pa, nm, e, f, clk)

\* A finished call: its name, its path argument (if any) and its outcome
Call(op, arg, out) == [op |-> op, arg |-> arg, panic |-> out.panic, val |-> out.val]
Unit == [panic |-> FALSE, val |-> None]

\* A thread makes calls until a panic unwinds it, one call at a time.
Ready(t) == ~ret[t].panic /\ rd[t] = None

\* unix_time on an Enabled thread answering from what the thread's last
\* unix_time or unix_time_as_millis returned
Mut_unix_time_cached(t) ==
    /\ Ready(t)
    /\ LET r == unix_time_match(enabled[t], path[t], name[t], env, fs, clock) IN
       /\ enabled' = [enabled EXCEPT ![t] = r.enabled]
       /\ path' = [path EXCEPT ![t] = r.path]
       /\ ret' = [ret EXCEPT ![t] =
                   IF enabled[t] = Some(TRUE) /\ ret[t].op = "unix_time" THEN ret[t]
                   ELSE IF /\ enabled[t] = Some(TRUE)
                           /\ ret[t].op = "unix_time_as_millis"
                           /\ ~ret[t].panic
                   THEN Call("unix_time", << >>,
                             Returned(from_millis(Unwrap(ret[t].val).millis)))
                   ELSE Call("unix_time", << >>, r.out)]
    /\ UNCHANGED <<name, env, clock, fs, rd, w, tmpdir, held>>

\* unix_time that leaves an empty file where it found none to read
Mut_unix_time_touch(t) ==
    /\ Ready(t)
    /\ LET r == unix_time_match(enabled[t], path[t], name[t], env, fs, clock) IN
       /\ enabled' = [enabled EXCEPT ![t] = r.enabled]
       /\ path' = [path EXCEPT ![t] = r.path]
       /\ ret' = [ret EXCEPT ![t] = Call("unix_time", << >>, r.out)]
       /\ fs' = IF r.path \in DOMAIN fs /\ fs[r.path] = None
                THEN [fs EXCEPT ![r.path] = Some(<< >>)]
                ELSE fs
    /\ UNCHANGED <<name, env, clock, rd, w, tmpdir, held>>

\* pub fn unix_time() -> Duration, called by thread t
unix_time(t) ==
    /\ Ready(t)
    /\ LET r == unix_time_match(enabled[t], path[t], name[t], env, fs, clock) IN
       /\ enabled' = [enabled EXCEPT ![t] = r.enabled]
       /\ path' = [path EXCEPT ![t] = r.path]
       /\ ret' = [ret EXCEPT ![t] = Call("unix_time", << >>, r.out)]
    /\ UNCHANGED <<name, env, clock, fs, rd, w, tmpdir, held>>

\* enable storing into cells that all threads share (statics, not thread_local!)
Mut_enable_shared(t, p) ==
    /\ Ready(t)
    /\ path' = [u \in Threads |-> p]
    /\ enabled' = [u \in Threads |-> Some(TRUE)]
    /\ ret' = [ret EXCEPT ![t] = Call("enable", p, Unit)]
    /\ UNCHANGED <<name, env, clock, fs, rd, w, tmpdir, held>>

\* enable that replaces the path but sets the flag only when it is undecided
Mut_enable(t, p) ==
    /\ Ready(t)
    /\ path' = [path EXCEPT ![t] = p]
    /\ enabled' = [enabled EXCEPT ![t] = IF @ = None THEN Some(TRUE) ELSE @]
    /\ ret' = [ret EXCEPT ![t] = Call("enable", p, Unit)]
    /\ UNCHANGED <<name, env, clock, fs, rd, w, tmpdir, held>>

\* pub fn enable(path: PathBuf), called by thread t
enable(t, p) ==
    /\ Ready(t)
    /\ path' = [path EXCEPT ![t] = p]
    /\ enabled' = [enabled EXCEPT ![t] = Some(TRUE)]
    /\ ret' = [ret EXCEPT ![t] = Call("enable", p, Unit)]
    /\ UNCHANGED <<name, env, clock, fs, rd, w, tmpdir, held>>

\* disable that resets the cell to its initial value
Mut_disable(t) ==
    /\ Ready(t)
    /\ enabled' = [enabled EXCEPT ![t] = None]
    /\ ret' = [ret EXCEPT ![t] = Call("disable", << >>, Unit)]
    /\ UNCHANGED <<path, name, env, clock, fs, rd, w, tmpdir, held>>

\* pub fn disable(), called by thread t
disable(t) ==
    /\ Ready(t)
    /\ enabled' = [enabled EXCEPT ![t] = Some(FALSE)]
    /\ ret' = [ret EXCEPT ![t] = Call("disable", << >>, Unit)]
    /\ UNCHANGED <<path, name, env, clock, fs, rd, w, tmpdir, held>>

\* The sum of unix_time_as_millis with a component taken in microseconds
Mut_millis_u64(duration) ==
    LET v == as_secs(duration) * 1000 + duration.nanos \div 1000 IN
    IF v <= MaxMillis THEN {Returned([millis |-> v])}
    ELSE {Panicked, Returned([millis |-> v % (MaxMillis + 1)])}

\* duration.as_secs() * 1000 + u64::from(duration.subsec_millis()), in u64:
\* past the largest value the sum panics in a build with overflow checks and
\* wraps around in a build without them.
millis_u64(duration) ==
    LET v == as_secs(duration) * 1000 + subsec_millis(duration) IN
    IF v <= MaxMillis THEN {Returned([millis |-> v])}
    ELSE {Panicked, Returned([millis |-> v % (MaxMillis + 1)])}

\* pub fn unix_time_as_millis() -> u64, called by thread t
unix_time_as_millis(t) ==
    /\ Ready(t)
    /\ LET r == unix_time_match(enabled[t], path[t], name[t], env, fs, clock) IN
       /\ enabled' = [enabled EXCEPT ![t] = r.enabled]
       /\ path' = [path EXCEPT ![t] = r.path]
       /\ IF r.out.panic
          THEN ret' = [ret EXCEPT ![t] = Call("unix_time_as_millis", << >>, Panicked)]
          ELSE \E out \in millis_u64(Unwrap(r.out.val)) :
                   ret' = [ret EXCEPT ![t] = Call("unix_time_as_millis", << >>, out)]
    /\ UNCHANGED <<name, env, clock, fs, rd, w, tmpdir, held>>

\* unix_time on an Enabled thread, first half: read_to_string opens the file.
\* A path with no file ends the call at once with the fallback.
unix_time_open(t) ==
    /\ Ready(t)
    /\ enabled[t] = Some(TRUE)
    /\ IF IsSome(lookup(fs, path[t]))
       THEN /\ rd' = [rd EXCEPT ![t] = Some(Linked(path[t]))]
            /\ UNCHANGED ret
       ELSE /\ ret' = [ret EXCEPT ![t] = Call("unix_time", << >>, map_or_else(None, clock))]
            /\ UNCHANGED rd
    /\ UNCHANGED <<enabled, path, name, env, clock, fs, w, tmpdir, held>>

\* unix_time on an Enabled thread, second half: read_to_string reads the open
\* file to its end and the text is parsed.
unix_time_read(t) ==
    /\ IsSome(rd[t])
    /\ LET text == utf8(handle_bytes(fs, Unwrap(rd[t]))) IN
       ret' = [ret EXCEPT ![t] = Call("unix_time", << >>, map_or_else(and_then_parse(text), clock))]
    /\ rd' = [rd EXCEPT ![t] = None]
    /\ UNCHANGED <<enabled, path, name, env, clock, fs, w, tmpdir, held>>

\* ------------------------------------------------------ file protocol
\* The harness between calls: res, p and m are the result ("ok" or "err") and
\* the arguments of its last call if that was write_millis, "none" otherwise
Idle(res, p, m) ==
    [pc |-> "idle", path |-> p, millis |-> m, tmp |-> << >>, rest |-> << >>, res |-> res]
NoWrite == Idle("none", << >>, 0)

\* write_all going to the target file itself
Mut_written_path(tp, p) == p

\* The file that write_all writes: the NamedTempFile, not the target
written_path(tp, p) == tp

\* write_millis that does not look at what persist returned
Mut_write_millis_run(f, handles, dir, tp, p, m) ==
    LET c == NamedTempFile_new(f, dir, tp) IN
    IF ~c.ok THEN [ok |-> FALSE, fs |-> f, rd |-> handles]
    ELSE LET written == write_all(c.fs, dir, written_path(tp, p), to_string(m)) IN
         IF ~written.ok
         THEN [remove_file(c.fs, handles, tp) EXCEPT !.ok = FALSE]
         ELSE LET r == rename(written.fs, handles, tp, p) IN
              IF r.ok THEN r ELSE [remove_file(written.fs, handles, tp) EXCEPT !.ok = TRUE]

\* write_millis from start to end: the files and handles it leaves, and
\* whether it returned Ok.  dir is the condition of env::temp_dir() and tp
\* the name NamedTempFile::new() drew.  When write_all or persist fails the
\* temporary file is deleted as the NamedTempFile or its TempPath drops.
write_millis_run(f, handles, dir, tp, p, m) ==
    LET c == NamedTempFile_new(f, dir, tp) IN
    IF ~c.ok THEN [ok |-> FALSE, fs |-> f, rd |-> handles]
    ELSE LET written == write_all(c.fs, dir, written_path(tp, p), to_string(m)) IN
         IF ~written.ok
         THEN [remove_file(c.fs, handles, tp) EXCEPT !.ok = FALSE]
         ELSE LET r == rename(written.fs, handles, tp, p) IN
              IF r.ok THEN r ELSE [remove_file(written.fs, handles, tp) EXCEPT !.ok = FALSE]

\* pub fn write_millis(path, millis), called by the test harness
write_millis(p, m) ==
    /\ w.pc = "idle"
    /\ \E tp \in FreshTmp(fs) :
        LET r == write_millis_run(fs, rd, tmpdir, tp, p, m) IN
        /\ fs' = r.fs
        /\ rd' = r.rd
        /\ w' = Idle(IF r.ok THEN "ok" ELSE "err", p, m)
    /\ UNCHANGED <<enabled, path, name, env, clock, ret, tmpdir, held>>

\* write_millis step 1: let mut file = NamedTempFile::new()?
write_millis_create(p, m) ==
    /\ w.pc = "idle"
    /\ \E tp \in FreshTmp(fs) :
        LET c == NamedTempFile_new(fs, tmpdir, tp) IN
        IF c.ok
        THEN /\ fs' = c.fs
             /\ w' = [pc |-> "write", path |-> p, millis |-> m, tmp |-> tp,
                      rest |-> to_string(m), res |-> "none"]
        ELSE /\ w' = Idle("err", p, m)
             /\ UNCHANGED fs
    /\ UNCHANGED <<enabled, path, name, env, clock, ret, rd, tmpdir, held>>

\* write_millis step 2: file.write_all(..)?, one write(2) of n bytes at a
\* time; when one fails the call ends and the NamedTempFile is deleted
write_millis_write ==
    /\ w.pc = "write"
    /\ w.rest # << >>
    /\ \E n \in 1..Len(w.rest) :
        LET written == write_all(fs, tmpdir, written_path(w.tmp, w.path), SubSeq(w.rest, 1, n))
            e == remove_file(fs, rd, w.tmp)
        IN  IF written.ok
            THEN /\ fs' = written.fs
                 /\ w' = [w EXCEPT !.rest = SubSeq(w.rest, n + 1, Len(w.rest))]
                 /\ UNCHANGED rd
            ELSE /\ fs' = e.fs
                 /\ rd' = e.rd
                 /\ w' = Idle("err", w.path, w.millis)
    /\ UNCHANGED <<enabled, path, name, env, clock, ret, tmpdir, held>>

\* write_millis step 3: file.into_temp_path().persist(path)?
write_millis_persist ==
    /\ w.pc = "write"
    /\ w.rest = << >>
    /\ LET r == rename(fs, rd, w.tmp, w.path)
           e == remove_file(fs, rd, w.tmp)
       IN  /\ fs' = IF r.ok THEN r.fs ELSE e.fs
           /\ rd' = IF r.ok THEN r.rd ELSE e.rd
           /\ w' = Idle(IF r.ok THEN "ok" ELSE "err", w.path, w.millis)
    /\ UNCHANGED <<enabled, path, name, env, clock, ret, tmpdir, held>>

\* An io::Result that is an Err
Err == [panic |-> FALSE, val |-> None]

\* enable_and_write_millis up to its call of enable: ta is the name of the
\* NamedTempFile it returns, tb the name write_millis draws.  When write_millis
\* fails, `file` is dropped and deleted on the way out.
enable_and_write_millis_run(f, handles, dir, ta, tb, m) ==
    LET file == NamedTempFile_new(f, dir, ta) IN
    IF ~file.ok THEN [ok |-> FALSE, fs |-> f, rd |-> handles]
    ELSE LET r == write_millis_run(file.fs, handles, dir, tb, ta, m) IN
         IF r.ok THEN r ELSE [remove_file(r.fs, r.rd, ta) EXCEPT !.ok = FALSE]

\* enable_and_write_millis that enables the thread before it writes the file
Mut_enable_and_write_millis(t, m) ==
    /\ Ready(t)
    /\ held[t] = None
    /\ \E ta \in FreshTmp(fs) : \E tb \in FreshTmp(fs) \ {ta} :
        LET r == enable_and_write_millis_run(fs, rd, tmpdir, ta, tb, m) IN
        /\ fs' = r.fs
        /\ rd' = r.rd
        /\ path' = [path EXCEPT ![t] = ta]
        /\ enabled' = [enabled EXCEPT ![t] = Some(TRUE)]
        /\ held' = [held EXCEPT ![t] = IF r.ok THEN Some(ta) ELSE None]
        /\ ret' = [ret EXCEPT ![t] =
                    Call("enable_and_write_millis", to_string(m),
                         IF r.ok THEN Returned([path |-> ta]) ELSE Err)]
    /\ UNCHANGED <<name, env, clock, w, tmpdir>>

\* pub fn enable_and_write_millis(millis) -> Result<NamedTempFile>, called by
\* thread t, whose scope holds at most one such handle at a time
enable_and_write_millis(t, m) ==
    /\ Ready(t)
    /\ held[t] = None
    /\ \E ta \in FreshTmp(fs) : \E tb \in FreshTmp(fs) \ {ta} :
        LET r == enable_and_write_millis_run(fs, rd, tmpdir, ta, tb, m) IN
        /\ fs' = r.fs
        /\ rd' = r.rd
        /\ IF r.ok
           THEN /\ path' = [path EXCEPT ![t] = ta]
                /\ enabled' = [enabled EXCEPT ![t] = Some(TRUE)]
                /\ held' = [held EXCEPT ![t] = Some(ta)]
           ELSE UNCHANGED <<enabled, path, held>>
        /\ ret' = [ret EXCEPT ![t] =
                    Call("enable_and_write_millis", to_string(m),
                         IF r.ok THEN Returned([path |-> ta]) ELSE Err)]
    /\ UNCHANGED <<name, env, clock, w, tmpdir>>

\* A drop of the NamedTempFile that keeps the file (as NamedTempFile::keep)
Mut_drop_keep(t) ==
    /\ IsSome(held[t])
    /\ rd[t] = None
    /\ held' = [held EXCEPT ![t] = None]
    /\ UNCHANGED <<enabled, path, name, env, clock, fs, ret, rd, w, tmpdir>>

\* A drop of the NamedTempFile that also takes the thread's setting back
Mut_drop_reset(t) ==
    /\ IsSome(held[t])
    /\ rd[t] = None
    /\ LET r == remove_file(fs, rd, Unwrap(held[t])) IN
       /\ fs' = r.fs
       /\ rd' = r.rd
    /\ held' = [held EXCEPT ![t] = None]
    /\ enabled' = [enabled EXCEPT ![t] = Some(FALSE)]
    /\ UNCHANGED <<path, name, env, clock, ret, w, tmpdir>>

\* The NamedTempFile that thread t holds goes out of scope, by the end of the
\* scope or by a panic unwinding it: the file at its path is deleted, and a
\* failure to delete it is ignored.
drop(t) ==
    /\ IsSome(held[t])
    /\ rd[t] = None
    /\ LET r == remove_file(fs, rd, Unwrap(held[t])) IN
       /\ fs' = r.fs
       /\ rd' = r.rd
    /\ held' = [held EXCEPT ![t] = None]
    /\ UNCHANGED <<enabled, path, name, env, clock, ret, w, tmpdir>>

\* ------------------------------------------------------------ environment
\* env::temp_dir() gets into another condition
set_tmpdir(d) ==
    /\ d # tmpdir
    /\ tmpdir' = d
    /\ UNCHANGED <<enabled, path, name, env, clock, fs, ret, rd, w, held>>

\* std::fs::write(path, bytes) by the harness, in place (as in test_mock_file_io)
harness_write(p, bytes) ==
    /\ w.pc = "idle"
    /\ fs' = fs_write(fs, p, bytes).fs
    /\ w' = NoWrite
    /\ UNCHANGED <<enabled, path, name, env, clock, ret, rd, tmpdir, held>>

\* The harness deletes a timestamp file
harness_remove(p) ==
    /\ w.pc = "idle"
    /\ IsSome(lookup(fs, p))
    /\ LET r == remove_file(fs, rd, p) IN
       /\ fs' = r.fs
       /\ rd' = r.rd
    /\ w' = NoWrite
    /\ UNCHANGED <<enabled, path, name, env, clock, ret, tmpdir, held>>

\* env::set_var(KEY_FAKETIME_DIR, v) and env::remove_var(KEY_FAKETIME_DIR)
set_var(v) ==
    /\ env' = Some(v)
    /\ env' # env
    /\ UNCHANGED <<enabled, path, name, clock, fs, ret, rd, w, tmpdir, held>>

remove_var ==
    /\ env # None
    /\ env' = None
    /\ UNCHANGED <<enabled, path, name, clock, fs, ret, rd, w, tmpdir, held>>

\* ---------------------------------------------------------- input sets
ThreadNames ==
    {None, Some(<<"w">>), Some(PREFIX_FAKETIME_EQ \o PathDW), Some(PathDW)}
EnvValues == {DirD, <<"/", BadByte>>}
EnablePaths == {PathDW, PathG}
\* Readings of the host clock: their nanoseconds are not whole milliseconds,
\* so no reading equals a duration that from_millis made from a file, and
\* their milliseconds are far below MaxMillis, as today's are below u64::MAX.
Clock1 == [secs |-> 17, nanos |-> 1]
Clock2 == [secs |-> 18, nanos |-> 2]
Clocks == {None, Some(Clock1), Some(Clock2)}
Millis == {100000}
Junk == {<<"x">>}

\* Inputs of the file-protocol specification SpecFile
FileThreads == {"t1"}
FileMillis == {0, 99, 12345, 123456, MaxMillis}
FileJunk ==
    { << >>, <<"\n">>, <<"x">>, <<"1", "x">>, <<"1", " ", "2">>, <<"-", "1">>, <<"+">>,
      <<"+", "5">>, <<" ", "9", "9", " ">>, <<"1", "2", "3", "4", "5", "\n">>,
      <<"9", BadByte>>, <<"9", "9", "9", "9", "9", "9">>, to_string(MaxMillis + 1) }
\* Inputs of the atomic-write specification SpecAtomic
AtomicMillis == {99, 123456}

\* Inputs of the scoped-file specification SpecScoped
ScopedMillis == {100000, 7}
ScopedTargets == TmpPaths \cup MountedPaths
\* The paths of the NamedTempFiles that are alive
HeldPaths == {Unwrap(held[t]) : t \in {u \in Threads : IsSome(held[u])}}

\* The host clock moves (it may also be set back)
Tick ==
    /\ \E c \in Clocks : clock' = c /\ c # clock
    /\ UNCHANGED <<enabled, path, name, env, fs, ret, rd, w, tmpdir, held>>

\* ------------------------------------------------------- specification
NoCall == Call("none", << >>, Unit)

Init ==
    /\ enabled = [t \in Threads |-> None]
    /\ path = [t \in Threads |-> << >>]
    /\ name \in [Threads -> ThreadNames]
    /\ env \in {None} \cup {Some(v) : v \in EnvValues}
    /\ clock \in Clocks
    /\ fs = [p \in FsPaths |-> None]
    /\ ret = [t \in Threads |-> NoCall]
    /\ rd = [t \in Threads |-> None]
    /\ w = NoWrite
    /\ tmpdir = "ok"
    /\ held = [t \in Threads |-> None]

Next ==
    \/ \E t \in Threads : unix_time(t)
    \/ \E t \in Threads, p \in EnablePaths : enable(t, p)
    \/ \E t \in Threads : disable(t)
    \/ \E p \in FilePaths, m \in Millis : write_millis(p, m)
    \/ \E p \in FilePaths, b \in Junk : harness_write(p, b)
    \/ \E p \in FilePaths : harness_remove(p)
    \/ \E v \in EnvValues : set_var(v)
    \/ remove_var
    \/ Tick

Spec == Init /\ [][Next]_vars

\* The file protocol and read_millis over many file contents: one unnamed
\* thread, no environment variable.
InitFile ==
    /\ Init
    /\ name = [t \in Threads |-> None]
    /\ env = None

NextFile ==
    \/ \E t \in FileThreads : unix_time(t)
    \/ \E t \in FileThreads : unix_time_as_millis(t)
    \/ \E t \in FileThreads, p \in EnablePaths : enable(t, p)
    \/ \E p \in FilePaths, m \in FileMillis : write_millis(p, m)
    \/ \E p \in FilePaths, b \in FileJunk : harness_write(p, b)
    \/ \E p \in FilePaths : harness_remove(p)
    \/ Tick

SpecFile == InitFile /\ [][NextFile]_vars

\* enable_and_write_millis and the handle it returns: one unnamed thread
\* holds scoped files in env::temp_dir(), whose condition changes, while the
\* harness publishes to the same paths and to a path on another volume and
\* deletes files that no handle owns.
InitScoped ==
    /\ Init
    /\ name = [t \in Threads |-> None]
    /\ env = None

NextScoped ==
    \/ \E t \in FileThreads, m \in ScopedMillis : enable_and_write_millis(t, m)
    \/ \E t \in FileThreads : drop(t)
    \/ \E t \in FileThreads : unix_time(t)
    \/ \E t \in FileThreads : enable(t, PathG)
    \/ \E t \in FileThreads : disable(t)
    \/ \E p \in ScopedTargets, m \in ScopedMillis : write_millis(p, m)
    \/ \E p \in TmpPaths \ HeldPaths : harness_remove(p)
    \/ \E d \in TmpDirStates : set_tmpdir(d)
    \/ Tick

SpecScoped == InitScoped /\ [][NextScoped]_vars

\* write_millis step by step against reads step by step: the file at PathDW
\* has been published, the harness publishes again and again while the
\* threads, enabled on PathDW, read.
InitAtomic ==
    /\ enabled = [t \in Threads |-> None]
    /\ path = [t \in Threads |-> << >>]
    /\ name = [t \in Threads |-> None]
    /\ env = None
    /\ clock = Some(Clock1)
    /\ \E m \in AtomicMillis :
        /\ fs = [p \in FsPaths |-> IF p = PathDW THEN Some(to_string(m)) ELSE None]
        /\ w = Idle("ok", PathDW, m)
    /\ ret = [t \in Threads |-> NoCall]
    /\ rd = [t \in Threads |-> None]
    /\ tmpdir = "ok"
    /\ held = [t \in Threads |-> None]

NextAtomic ==
    \/ \E t \in Threads : enable(t, PathDW)
    \/ \E t \in Threads : unix_time_open(t)
    \/ \E t \in Threads : unix_time_read(t)
    \/ \E m \in AtomicMillis : write_millis_create(PathDW, m)
    \/ write_millis_write
    \/ write_millis_persist

SpecAtomic == InitAtomic /\ [][NextAtomic]_vars

\* ------------------------------------------------------------ properties
Undecided == None
Enabled == Some(TRUE)
Disabled == Some(FALSE)

\* The outcome of thread t's call that this step completes
Outcome(t) == [panic |-> ret'[t].panic, val |-> ret'[t].val]

\* C1: once a thread's enabled state has left Undecided it is never
\* Undecided again, and from then on only that thread's explicit enable or
\* disable calls change it.
C1_LeavesUndecidedForGood ==
    [][\A t \in Threads :
        enabled[t] # Undecided =>
            /\ enabled'[t] # Undecided
            /\ enabled'[t] # enabled[t] =>
                   \/ \E p \in EnablePaths : enable(t, p)
                   \/ disable(t)]_vars

\* C1 witness: a thread that auto-detection enabled (only auto-detection
\* builds this path) has since been disabled by an explicit call.
C1_Witness ==
    \E t \in Threads :
        /\ path[t] = DirD \o <<"/">> \o PREFIX_FAKETIME_EQ \o PathDW
        /\ enabled[t] = Disabled
        /\ ret[t].op = "disable"

\* C2: a unix_time call that finds the state Enabled or Disabled leaves the
\* enabled state and the configured path as they are, whatever the
\* environment variable and the file are by then.
C2_DecidedSkipsAutoDetect ==
    [][\A t \in Threads :
        (enabled[t] # Undecided /\ unix_time(t)) =>
            /\ enabled'[t] = enabled[t]
            /\ path'[t] = path[t]]_vars

\* C2 witness: unix_time has returned on a thread that is Disabled with no
\* path, or Enabled on PathG by an explicit call, while auto-detection, run
\* now, would enable it on another path.
C2_Witness ==
    \E t \in Threads :
        /\ ret[t].op = "unix_time"
        /\ \/ enabled[t] = Disabled /\ path[t] = << >>
           \/ enabled[t] = Enabled /\ path[t] = PathG
        /\ IsSome(path_option(name[t], env))
        /\ path_option(name[t], env) # Some(path[t])

\* C3: enable(p) from any prior state leaves the thread Enabled with exactly
\* p, touches no file and cannot fail; the next unix_time resolves against p.
C3_EnableOverrides ==
    [][\A t \in Threads :
        /\ \A p \in EnablePaths :
               enable(t, p) =>
                   /\ enabled'[t] = Enabled
                   /\ path'[t] = p
                   /\ ret'[t] = Call("enable", p, Unit)
                   /\ UNCHANGED <<fs, rd>>
        /\ (ret[t].op = "enable" /\ unix_time(t)) =>
               Outcome(t) = read_or_system(fs, ret[t].arg, clock)]_vars

\* C3 witness: an unnamed thread (auto-detection can only disable it) is
\* Enabled on PathDW and its unix_time returned the timestamp of that file,
\* while a thread whose auto-detected path is PathDW was enabled on PathG.
C3_Witness ==
    \E t \in Threads :
        /\ name[t] = None
        /\ enabled[t] = Enabled
        /\ path[t] = PathDW
        /\ ret[t] = Call("unix_time", << >>, Returned(from_millis(100000)))
        /\ \E u \in Threads : u # t /\ ret[u].op = "enable" /\ enabled[u] = Enabled
                              /\ path[u] = PathG /\ name[u] = Some(PathDW)

\* C4: disable() from any prior state leaves the thread Disabled, and every
\* unix_time on a Disabled thread returns what the real clock returns (never
\* the file's value) and leaves it Disabled.
C4_DisabledUsesRealClock ==
    [][\A t \in Threads :
        /\ disable(t) => enabled'[t] = Disabled
        /\ (enabled[t] = Disabled /\ unix_time(t)) =>
               /\ Outcome(t) = system_unix_time(clock)
               /\ enabled'[t] = Disabled]_vars

\* C4 witness: a Disabled thread whose configured file holds a valid
\* timestamp has had unix_time return the real clock's value.
C4_Witness ==
    \E t \in Threads :
        /\ enabled[t] = Disabled
        /\ path[t] = PathDW
        /\ fs[PathDW] = Some(to_string(100000))
        /\ IsSome(clock)
        /\ ret[t] = Call("unix_time", << >>, Returned(Unwrap(clock)))

\* The environment variable holds text env::var can return
ValidUnicode(bytes) == \A k \in 1..Len(bytes) : bytes[k] # BadByte

\* FAKETIME_DIR/THREAD_NAME: the name as a path below dir, or the name alone
\* when it is an absolute path
DirSlashName(dir, nm) ==
    IF nm # << >> /\ nm[1] = "/" THEN nm
    ELSE IF dir = << >> \/ dir[Len(dir)] = "/" THEN dir \o nm
    ELSE dir \o <<"/">> \o nm

\* The thread name (an Option) begins with the literal FAKETIME=
HasPrefix(nm) ==
    /\ IsSome(nm)
    /\ Len(Unwrap(nm)) >= Len(PREFIX_FAKETIME_EQ)
    /\ \A k \in 1..Len(PREFIX_FAKETIME_EQ) : Unwrap(nm)[k] = PREFIX_FAKETIME_EQ[k]

\* The rest of the thread name after FAKETIME=
Remainder(nm) ==
    [k \in 1..(Len(Unwrap(nm)) - Len(PREFIX_FAKETIME_EQ)) |->
        Unwrap(nm)[k + Len(PREFIX_FAKETIME_EQ)]]

C6_PrefixOnlyWhenEnvAbsent ==
    [][\A t \in Threads :
        (/\ enabled[t] = Undecided
         /\ HasPrefix(name[t])
         /\ unix_time(t)
         /\ ~ret'[t].panic) =>
            IF env = None
            THEN enabled'[t] = Enabled /\ path'[t] = Remainder(name[t])
            ELSE path'[t] # Remainder(name[t])]_vars

\* C6, the part that holds: the same with "not set" read as "env::var gives
\* no value", which is also the case for a value that is not valid Unicode.
C6_PrefixWhenEnvVarFails ==
    [][\A t \in Threads :
        (/\ enabled[t] = Undecided
         /\ HasPrefix(name[t])
         /\ unix_time(t)
         /\ ~ret'[t].panic) =>
            IF env = None \/ ~ValidUnicode(Unwrap(env))
            THEN enabled'[t] = Enabled /\ path'[t] = Remainder(name[t])
            ELSE path'[t] # Remainder(name[t])]_vars

\* C7: unix_time on an Undecided thread with the environment variable not set
\* and no name starting with the prefix (or no name) leaves the thread
\* Disabled and yields what the real clock yields, and so does every later
\* call while the thread stays Disabled.
C7_OtherwiseDisabled ==
    [][\A t \in Threads :
        /\ (enabled[t] = Undecided /\ env = None /\ ~HasPrefix(name[t]) /\ unix_time(t)) =>
               /\ enabled'[t] = Disabled
               /\ Outcome(t) = system_unix_time(clock)
        /\ (enabled[t] = Disabled /\ ret[t].op = "unix_time" /\ unix_time(t)) =>
               /\ enabled'[t] = Disabled
               /\ Outcome(t) = system_unix_time(clock)]_vars

\* C7 witness: with no environment variable, an unnamed thread and a thread
\* named w are Disabled with no path and unix_time returned the real clock.
C7_Witness ==
    /\ env = None
    /\ IsSome(clock)
    /\ \E t \in Threads : name[t] = None /\ enabled[t] = Disabled /\ path[t] = << >>
                          /\ ret[t] = Call("unix_time", << >>, Returned(Unwrap(clock)))
    /\ \E t \in Threads : name[t] = Some(<<"w">>) /\ enabled[t] = Disabled /\ path[t] = << >>
                          /\ ret[t] = Call("unix_time", << >>, Returned(Unwrap(clock)))

\* The bytes are a decimal number (an optional +, then digits only) with
\* nothing but whitespace around it
DecimalText(s) ==
    \E start \in {1, 2} :
        /\ start = 2 => s[1] = "+"
        /\ Len(s) >= start
        /\ \A k \in start..Len(s) : s[k] \in {"0", "1", "2", "3", "4", "5", "6", "7", "8", "9"}

PaddedDecimal(b) ==
    \E i, j \in 1..Len(b) :
        /\ i <= j
        /\ \A k \in 1..(i - 1) : b[k] \in {" ", "\n"}
        /\ \A k \in (j + 1)..Len(b) : b[k] \in {" ", "\n"}
        /\ DecimalText([k \in 1..(j - i + 1) |-> b[k + i - 1]])

\* No timestamp can be had from the file at p: it is missing, unreadable as
\* text, empty, or its trimmed content is no non-negative decimal integer
NoTimestamp(f, p) ==
    \/ lookup(f, p) = None
    \/ ~ValidUnicode(Unwrap(lookup(f, p)))
    \/ ~PaddedDecimal(Unwrap(lookup(f, p)))

\* C8: on an Enabled thread whose configured file is missing, unreadable,
\* empty or not a non-negative decimal integer once trimmed, unix_time yields
\* what the real clock yields and leaves the thread Enabled with its path.
C8_FallbackToRealClock ==
    [][\A t \in Threads :
        (enabled[t] = Enabled /\ NoTimestamp(fs, path[t]) /\ unix_time(t)) =>
            /\ Outcome(t) = system_unix_time(clock)
            /\ enabled'[t] = Enabled
            /\ path'[t] = path[t]]_vars

\* C8 witness: the file of an Enabled thread holds "1x" and unix_time
\* returned the real clock's value.
C8_Witness ==
    \E t \in Threads :
        /\ enabled[t] = Enabled
        /\ path[t] = PathDW
        /\ fs[PathDW] = Some(<<"1", "x">>)
        /\ IsSome(clock)
        /\ ret[t] = Call("unix_time", << >>, Returned(Unwrap(clock)))

\* The text of m, bare or with whitespace around it
Padded(m) ==
    { to_string(m), to_string(m) \o <<"\n">>, <<" ">> \o to_string(m) \o <<" ">> }

\* C9: after write_millis(p, m) returns Ok, reading p back gives exactly m;
\* and unix_time on a thread enabled on a file that holds the text of m, with
\* or without surrounding whitespace, returns a duration of m / 1000 whole
\* seconds and m % 1000 milliseconds.
C9_RoundTrip ==
    [][/\ \A p \in FilePaths, m \in FileMillis :
            (write_millis(p, m) /\ w'.res = "ok") => read_millis(fs', p) = Some(m)
       /\ \A t \in Threads, m \in FileMillis :
            (/\ enabled[t] = Enabled
             /\ IsSome(lookup(fs, path[t]))
             /\ Unwrap(lookup(fs, path[t])) \in Padded(m)
             /\ unix_time(t)) =>
                /\ ~ret'[t].panic
                /\ as_secs(Unwrap(ret'[t].val)) = m \div 1000
                /\ subsec_millis(Unwrap(ret'[t].val)) = m % 1000]_vars

\* C9 witness: the harness's last call was write_millis(PathDW, 123456) and
\* unix_time on a thread enabled on PathDW returned 123 s 456 ms.
C9_Witness ==
    /\ w = Idle("ok", PathDW, 123456)
    /\ \E t \in Threads :
        /\ enabled[t] = Enabled
        /\ path[t] = PathDW
        /\ ret[t] = Call("unix_time", << >>, Returned([secs |-> 123, nanos |-> 456000000]))

\* C10: while write_millis publishes to a path over and over, the file at the
\* path, every file a reader holds open, and every value a read returned are
\* complete published timestamps: never empty, cut short or half written.
C10_ReadersSeeWholeFiles ==
    /\ fs[PathDW] \in {Some(to_string(m)) : m \in AtomicMillis}
    /\ \A t \in Threads :
        /\ IsSome(rd[t]) =>
               handle_bytes(fs, Unwrap(rd[t])) \in {to_string(m) : m \in AtomicMillis}
        /\ ret[t].op = "unix_time" =>
               ret[t].val \in {Some(from_millis(m)) : m \in AtomicMillis}

\* C10 witness: a reader still holds the file that a completed write_millis
\* replaced, another reader has returned, and the next write_millis has
\* written part of its text into its temporary file.
C10_Witness ==
    /\ w.pc = "write"
    /\ w.rest # << >>
    /\ fs[w.tmp] # Some(<< >>)
    /\ \E t \in Threads : IsSome(rd[t]) /\ ~Unwrap(rd[t]).linked
    /\ \E t \in Threads : ret[t].op = "unix_time"

\* C11: on an Enabled thread every unix_time is settled by what the
\* configured file holds when the call is made, whatever earlier calls
\* returned: a file holding the text of m gives m / 1000 seconds and m % 1000
\* milliseconds, again and again while the file is unchanged, and the first
\* call after the file has been republished with another value gives that
\* value.
C11_NothingCached ==
    [][\A t \in Threads :
        (enabled[t] = Enabled /\ unix_time(t)) =>
            \A m \in FileMillis :
                lookup(fs, path[t]) = Some(to_string(m)) =>
                    ret'[t] = Call("unix_time", << >>,
                                  Returned([secs |-> m \div 1000,
                                            nanos |-> (m % 1000) * 1000000]))]_vars

\* C11 witness: the file of an Enabled thread was published with 12345 and
\* read, then republished with 99, and unix_time has returned 0 s 99 ms.
C11_Witness ==
    /\ w = Idle("ok", PathDW, 99)
    /\ fs[PathDW] = Some(to_string(99))
    /\ \E t \in Threads :
        /\ enabled[t] = Enabled
        /\ path[t] = PathDW
        /\ ret[t] = Call("unix_time", << >>, Returned([secs |-> 0, nanos |-> 99000000]))

\* What auto-detection makes of a thread's name and the environment variable:
\* the enabled state and the path (pa: the path before)
Detected(nm, e, pa) ==
    IF IsSome(nm) /\ IsSome(e) /\ ValidUnicode(Unwrap(e))
    THEN <<Enabled, DirSlashName(Unwrap(e), Unwrap(nm))>>
    ELSE IF HasPrefix(nm) THEN <<Enabled, Remainder(nm)>>
    ELSE <<Disabled, pa>>

\* C12: a unix_time, enable or disable call of one thread leaves every other
\* thread's enabled state and path as they are; a thread's state and path
\* change only in that thread's own calls; and what its own auto-detection
\* sets is fixed by its own name and the environment variable at that call.
C12_PerThreadIsolation ==
    [][\A t \in Threads :
        /\ (unix_time(t) \/ (\E p \in EnablePaths : enable(t, p)) \/ disable(t)) =>
               \A u \in Threads \ {t} : enabled'[u] = enabled[u] /\ path'[u] = path[u]
        /\ (enabled'[t] # enabled[t] \/ path'[t] # path[t]) =>
               unix_time(t) \/ (\E p \in EnablePaths : enable(t, p)) \/ disable(t)
        /\ (enabled[t] = Undecided /\ unix_time(t) /\ ~ret'[t].panic) =>
               <<enabled'[t], path'[t]>> = Detected(name[t], env, path[t])]_vars

\* C12 witness: one thread has enabled itself on PathG by an explicit call
\* while the other, unnamed, has been disabled by its own auto-detection and
\* has no path.
C12_Witness ==
    \E t, u \in Threads :
        /\ ret[t].op = "enable" /\ enabled[t] = Enabled /\ path[t] = PathG
        /\ name[u] = None /\ ret[u].op = "unix_time" /\ ~ret[u].panic
        /\ enabled[u] = Disabled /\ path[u] = << >>

\* A step of the file protocol cannot succeed: no file can be created in the
\* temporary directory, or nothing can be written there, or the target p is
\* in another file system than the temporary file, which rename cannot cross
ProtocolFails(p) ==
    \/ tmpdir \in {"readonly", "full"}
    \/ (p[1] = "/" /\ p[2] = "m" /\ p[3] = "/")

\* C13: when creating the temporary file, writing it or renaming it onto the
\* target fails, write_millis returns an error, and so does
\* enable_and_write_millis, which then hands out no file; either reports
\* success only with the timestamp published at the path.
C13_FailuresSurface ==
    [][/\ \A p \in ScopedTargets, m \in ScopedMillis :
            write_millis(p, m) =>
                /\ w'.res \in {"ok", "err"}
                /\ ProtocolFails(p) => w'.res = "err"
                /\ w'.res = "ok" => lookup(fs', p) = Some(to_string(m))
       /\ \A t \in Threads, m \in ScopedMillis :
            enable_and_write_millis(t, m) =>
                /\ tmpdir \in {"readonly", "full"} =>
                       ret'[t].val = None /\ held'[t] = None
                /\ ret'[t].val # None =>
                       /\ held'[t] = Some(Unwrap(ret'[t].val).path)
                       /\ lookup(fs', Unwrap(held'[t])) = Some(to_string(m))]_vars

\* C13 witness: with no space left in the temporary directory
\* enable_and_write_millis has returned an error, and so has write_millis
\* for the target on the other volume.
C13_Witness ==
    /\ tmpdir = "full"
    /\ w = Idle("err", PathMF, 7)
    /\ \E t \in Threads : ret[t] = Call("enable_and_write_millis", to_string(7), Err)

\* C14: when enable_and_write_millis returns a handle, a file holding the
\* text of the given millis exists at the handle's path; while the handle is
\* alive the file stays there with that content, which only a write_millis
\* to the same path replaces (by its own value); when the handle goes out of
\* scope, at the end of the scope or in a panic, no file is left at the path;
\* and a call that returns an error leaves no file behind.
C14_ScopedFileLifecycle ==
    [][\A t \in Threads :
        /\ \A m \in ScopedMillis :
               enable_and_write_millis(t, m) =>
                   IF IsSome(held'[t])
                   THEN lookup(fs', Unwrap(held'[t])) = Some(to_string(m))
                   ELSE \A p \in TmpPaths : lookup(fs', p) = lookup(fs, p)
        /\ (IsSome(held[t]) /\ held'[t] = held[t]) =>
               /\ IsSome(lookup(fs', Unwrap(held[t])))
               /\ lookup(fs', Unwrap(held[t])) # lookup(fs, Unwrap(held[t])) =>
                      \E m \in ScopedMillis :
                          /\ write_millis(Unwrap(held[t]), m)
                          /\ lookup(fs', Unwrap(held[t])) = Some(to_string(m))
        /\ (IsSome(held[t]) /\ held'[t] # held[t]) =>
               /\ drop(t)
               /\ lookup(fs', Unwrap(held[t])) = None]_vars

\* C14 witness: the last call of a thread was an enable_and_write_millis
\* that returned a handle; the handle has gone out of scope since and no
\* file is left at its path.
C14_Witness ==
    \E t \in Threads :
        /\ ret[t].op = "enable_and_write_millis"
        /\ IsSome(ret[t].val)
        /\ held[t] = None
        /\ lookup(fs, Unwrap(ret[t].val).path) = None

\* The host clock reports a time before the epoch
BeforeEpoch == clock = None

\* The file at p holds the text of one of the timestamps the harness publishes
HoldsTimestamp(f, p) == \E m \in Millis : lookup(f, p) = Some(to_string(m))

\* C15: unix_time panics only with the host clock before the epoch, and then
\* only when the call falls back on the clock: never on an Enabled thread
\* whose file holds a timestamp (it returns the file's value whatever the
\* clock is), nor on an Undecided thread that auto-detection points at such
\* a file; a missing or malformed file with the clock in order never
\* panics.
C15_PanicsOnlyOnRealClock ==
    [][\A t \in Threads :
        unix_time(t) =>
            /\ ret'[t].panic => BeforeEpoch
            /\ (enabled[t] = Enabled /\ HoldsTimestamp(fs, path[t])) =>
                   /\ ~ret'[t].panic
                   /\ lookup(fs, path[t]) = Some(to_string(Unwrap(ret'[t].val).secs * 1000))
            /\ (/\ enabled[t] = Undecided
                /\ Detected(name[t], env, path[t])[1] = Enabled
                /\ HoldsTimestamp(fs, Detected(name[t], env, path[t])[2])) =>
                   ~ret'[t].panic
            /\ (enabled[t] = Enabled /\ NoTimestamp(fs, path[t]) /\ ~BeforeEpoch) =>
                   ~ret'[t].panic]_vars

\* C15 witness: with the host clock before the epoch, one thread, Enabled on
\* a file holding 100000, has had unix_time return 100 s, and the other
\* thread's unix_time has panicked.
C15_Witness ==
    /\ BeforeEpoch
    /\ fs[PathDW] = Some(to_string(100000))
    /\ \E t, u \in Threads :
        /\ enabled[t] = Enabled
        /\ path[t] = PathDW
        /\ ret[t] = Call("unix_time", << >>, Returned([secs |-> 100, nanos |-> 0]))
        /\ ret[u].op = "unix_time"
        /\ ret[u].panic

\* C16: no unix_time, enable or disable call, auto-detection and fallback
\* included, creates, changes or deletes a file or leaves one open: the
\* file system after the call is the file system before it.
C16_ResolverOnlyReads ==
    [][\A t \in Threads :
        (unix_time(t) \/ (\E p \in EnablePaths : enable(t, p)) \/ disable(t)) =>
            /\ \A p \in FsPaths : lookup(fs', p) = lookup(fs, p)
            /\ DOMAIN fs' = DOMAIN fs
            /\ rd'[t] = None]_vars

\* C16 witness: auto-detection has enabled the thread named w on /d/w, where
\* there is no file; its unix_time fell back on the real clock and there is
\* still no file.
C16_Witness ==
    \E t \in Threads :
        /\ name[t] = Some(<<"w">>)
        /\ enabled[t] = Enabled
        /\ path[t] = PathDW
        /\ IsSome(clock)
        /\ ret[t] = Call("unix_time", << >>, Returned(Unwrap(clock)))
        /\ lookup(fs, PathDW) = None

\* C17: on an Enabled thread whose file holds the text of m,
\* unix_time_as_millis returns exactly m, up to and including the largest
\* value of the integer type: the sum neither panics nor wraps around.
C17_AsMillisFollowsFile ==
    [][\A t \in Threads, m \in FileMillis :
        (/\ enabled[t] = Enabled
         /\ lookup(fs, path[t]) = Some(to_string(m))
         /\ unix_time_as_millis(t)) =>
            /\ ~ret'[t].panic
            /\ ret'[t].val = Some([millis |-> m])]_vars

\* C17 witness: the file of an Enabled thread holds the largest value and
\* unix_time_as_millis has returned it.
C17_Witness ==
    \E t \in Threads :
        /\ enabled[t] = Enabled
        /\ path[t] = PathDW
        /\ fs[PathDW] = Some(to_string(MaxMillis))
        /\ ret[t] = Call("unix_time_as_millis", << >>, Returned([millis |-> MaxMillis]))

\* C18 as claimed: with the temporary directory in order, write_millis
\* publishes to a writable target on any volume: it returns Ok and the
\* target holds the text of the millis.
C18_PublishesOnAnyVolume ==
    [][\A p \in ScopedTargets, m \in ScopedMillis :
        (tmpdir = "ok" /\ write_millis(p, m)) =>
            /\ w'.res = "ok"
            /\ lookup(fs', p) = Some(to_string(m))]_vars

\* C18, the part that holds: the same for the targets in the file system of
\* env::temp_dir(), where write_millis creates its temporary file.
C18_PublishesOnTmpVolume ==
    [][\A p \in ScopedTargets, m \in ScopedMillis :
        (tmpdir = "ok" /\ ~(p[1] = "/" /\ p[2] = "m" /\ p[3] = "/") /\ write_millis(p, m)) =>
            /\ w'.res = "ok"
            /\ lookup(fs', p) = Some(to_string(m))]_vars

\* The duration of m milliseconds
DurationOf(m) == [secs |-> m \div 1000, nanos |-> (m % 1000) * 1000000]

\* C19: when enable_and_write_millis(m) returns a handle the calling thread
\* is Enabled with the handle's path, the file there holds m, and the
\* thread's next unix_time, the file being as the call left it, returns m;
\* when it returns an error the thread's enabled state and path are what
\* they were before the call.
C19_EnableAndWrite ==
    [][\A t \in Threads, m \in ScopedMillis :
        /\ enable_and_write_millis(t, m) =>
               IF IsSome(ret'[t].val)
               THEN /\ enabled'[t] = Enabled
                    /\ path'[t] = Unwrap(ret'[t].val).path
                    /\ held'[t] = Some(path'[t])
                    /\ lookup(fs', path'[t]) = Some(to_string(m))
               ELSE /\ enabled'[t] = enabled[t]
                    /\ path'[t] = path[t]
        /\ (/\ ret[t] = Call("enable_and_write_millis", to_string(m),
                            Returned([path |-> path[t]]))
            /\ lookup(fs, path[t]) = Some(to_string(m))
            /\ unix_time(t)) =>
               ret'[t] = Call("unix_time", << >>, Returned(DurationOf(m)))]_vars

\* C19 witness: a thread holds the handle of enable_and_write_millis(7),
\* which alone has written the file (the harness has published nothing), is
\* Enabled on the handle's path, and its unix_time has returned 0 s 7 ms.
C19_Witness ==
    \E t \in Threads :
        /\ IsSome(held[t])
        /\ path[t] = Unwrap(held[t])
        /\ enabled[t] = Enabled
        /\ fs[path[t]] = Some(to_string(7))
        /\ w = NoWrite
        /\ ret[t] = Call("unix_time", << >>, Returned(DurationOf(7)))

\* C20: the drop of the handle deletes the file and leaves the thread's
\* enabled state and path as they are; on a thread left Enabled on the
\* dangling path every unix_time yields what the real clock yields, not the
\* old value, and keeps the state and the path; once the path has been
\* published again unix_time returns the published value.
C20_DanglingPathFallsBack ==
    [][\A t \in Threads :
        /\ drop(t) =>
               /\ enabled'[t] = enabled[t]
               /\ path'[t] = path[t]
               /\ lookup(fs', Unwrap(held[t])) = None
        /\ (/\ enabled[t] = Enabled
            /\ held[t] = None
            /\ lookup(fs, path[t]) = None
            /\ unix_time(t)) =>
               /\ Outcome(t) = system_unix_time(clock)
               /\ enabled'[t] = Enabled
               /\ path'[t] = path[t]
        /\ \A m \in ScopedMillis :
               (/\ enabled[t] = Enabled
                /\ held[t] = None
                /\ lookup(fs, path[t]) = Some(to_string(m))
                /\ unix_time(t)) =>
                   Outcome(t) = Returned(DurationOf(m))]_vars

\* C20 witness: the handle has been dropped, the thread is still Enabled on
\* its path, in the temporary directory, where no file is left, and unix_time
\* has returned the real clock's value.
C20_Witness ==
    \E t \in Threads :
        /\ held[t] = None
        /\ enabled[t] = Enabled
        /\ path[t] \in TmpPaths
        /\ lookup(fs, path[t]) = None
        /\ IsSome(clock)
        /\ ret[t] = Call("unix_time", << >>, Returned(Unwrap(clock)))

====
